---- MODULE Spec2Model ----
(***************************************************************************)
(* Window-handle resolution of window_inspector.                           *)
(*                                                                         *)
(*   src/src/find.rs         get_hwnd, HWND_CACHE, get_hwnd_ref_cache,      *)
(*                           HwndGetterWithCache                            *)
(*   src/src/information.rs  get_window_handle, WINDOW_HANDLE_CACHE,        *)
(*                           get_window_handle_ref_cache                    *)
(*   src/src/exist.rs        is_window_exist                                *)
(*   src/src/top_most.rs     get_window_top_most, set_window_top_most,      *)
(*                           cancel_window_top_most, toggle_window_top_most *)
(*   src/src/foreground.rs   set_foreground_window                          *)
(*   src/src/position_size.rs move_window_to_xywh                           *)
(*                                                                         *)
(* The operating system's window table is the environment: windows are     *)
(* created, destroyed and retitled between any two steps of a call.        *)
(***************************************************************************)
EXTENDS Integers, FiniteSets, Sequences, TLC

\* ------------------------------------------------------------------ bounds

\* Window handles are 1..MaxHandle; the OS reuses the handle of a destroyed window.
MaxHandle == 2

Handles == 1 .. MaxHandle

\* FindWindowW's "no window" (find.rs:67, `0 => Err(CannotFindWindow)`).
NoHwnd == 0

Threads == {"t1", "t2"}

\* Class names and titles that windows carry.
WinClasses == {"A"}
WinTitles == {"x", "y"}

\* (class, title) arguments of the resolve calls; "" is the empty string.
Keys == { << "", "" >>, << "", "x" >>, << "A", "" >> }

\* ------------------------------------------------------------------ values

\* The extended-style bit of a topmost window (top_most.rs:12, :29).
WS_EX_TOPMOST == 8

\* The extended styles of windows: no bit, the topmost bit, another bit
\* (WS_EX_WINDOWEDGE), both.
ExStyles == {0, WS_EX_TOPMOST, 256, 256 + WS_EX_TOPMOST}

\* A window is created with WS_EX_WINDOWEDGE and not topmost.
DefaultExStyle == 256

\* Window rectangles << x, y, width, height >>.
Rects == { << 0, 0, 1, 1 >>, << 1, 1, 2, 2 >> }

DefaultRect == << 0, 0, 1, 1 >>

Dead == [alive |-> FALSE, class |-> "A", title |-> "x",
         exstyle |-> DefaultExStyle, rect |-> DefaultRect]

Live(c, t) == [alive |-> TRUE, class |-> c, title |-> t,
               exstyle |-> DefaultExStyle, rect |-> DefaultRect]

Ok(h) == [tag |-> "Ok", hwnd |-> h]

Err(e) == [tag |-> e, hwnd |-> NoHwnd]

NoResult == [tag |-> "None", hwnd |-> NoHwnd]

\* HashMap::new()
EmptyCache == [k \in {} |-> NoHwnd]

\* A removal that clears the whole cache.
CacheRemoveAll(c, k) == EmptyCache

\* cache.remove left out
CacheRemoveForgotten(c, k) == c

\* HashMap::remove (find.rs:33, :93)
CacheRemove(c, k) == [q \in DOMAIN c \ {k} |-> c[q]]

\* An insert into a cache of capacity one: every other entry is evicted.
CacheInsertEvicting(c, k, h) == [q \in {k} |-> h]

\* HashMap::insert (find.rs:35, :95)
CacheInsert(c, k, h) == [q \in DOMAIN c \cup {k} |-> IF q = k THEN h ELSE c[q]]

\* The finder's failure cached like a handle.
AfterFindNegative(c, k, h) == CacheInsert(c, k, h)

\* The insert left out.
AfterFindForgotten(c, k, h) == c

\* find.rs:34-35 and :94-95: `?` leaves on the finder's error before the
\* insert; on a handle, cache.insert(key, hwnd)
AfterFind(c, k, h) == IF h = NoHwnd THEN c ELSE CacheInsert(c, k, h)

\* lock() that does not wait for the holder
MutexNeverHeld(l) == TRUE

\* Mutex::lock (find.rs:87, information.rs:92) returns once no thread holds it
MutexFree(l) == l = "free"

\* What one call has done so far (observations kept for the properties).
NoTrace ==
    [ finder  |-> 0,        \* FindWindowW invocations
      exist   |-> 0,        \* IsWindow invocations
      locks   |-> 0,        \* HWND_CACHE.lock() acquisitions
      stale   |-> NoHwnd,   \* the dead handle HWND_CACHE held for the key
      live    |-> FALSE,    \* the returned handle was a window when it was obtained
      settled |-> NoHwnd,   \* at the lookup: the handle the key resolved to, no window changed since
      pinned  |-> NoHwnd,   \* at the lookup: the handle the key resolved to, alive ever since
      race    |-> FALSE ]   \* the call raced another on the key, see EnterRefCache

\* A call that takes a window handle: the handle, the window as
\* get_window_top_most found it, the number of OS calls made that change
\* windows (SetForegroundWindow, MoveWindow, SetWindowPos), and whether one of
\* them reported failure.
NoOp == [hwnd |-> NoHwnd, before |-> Dead, mutations |-> 0, failed |-> FALSE]

\* What is known of a key of HWND_CACHE: the handle its latest resolve obtained,
\* as long as that window lives, and whether no window changed since.
Unresolved == [hwnd |-> NoHwnd, quiet |-> FALSE]

VARIABLES
    window,      \* the OS window table: handle -> window
    hwndCache,   \* find.rs HWND_CACHE
    hwndLock,    \* holder of HWND_CACHE's mutex, or "free"
    hwndBefore,  \* HWND_CACHE as it was when its mutex was taken
    getter,      \* one HwndGetterWithCache per thread: its cache
    getterBefore,\* that cache as it was when the call on it began
    whCache,     \* information.rs WINDOW_HANDLE_CACHE
    whLock,      \* holder of WINDOW_HANDLE_CACHE's mutex, or "free"
    whPoisoned,  \* WINDOW_HANDLE_CACHE's mutex is poisoned
    fn,          \* the function each thread is in, or "none"
    key,         \* its (class, title) arguments
    pc,          \* its position
    result,      \* its result
    trace,       \* its observations
    resolved,    \* per key of HWND_CACHE: see Unresolved
    foreground,  \* the foreground window, or NoHwnd
    op           \* per thread: its call on a window handle, see NoOp

vars == << window, hwndCache, hwndLock, hwndBefore, getter, getterBefore,
           whCache, whLock, whPoisoned, fn, key, pc, result, trace, resolved,
           foreground, op >>

findVars == << hwndCache, hwndLock, hwndBefore >>
getterVars == << getter, getterBefore >>
infoVars == << whCache, whLock, whPoisoned >>
opVars == << foreground, op >>

\* ------------------------------------------------------------------ OS

\* The check left out: every handle is taken for a window.
IsWindowUnchecked(h) == TRUE

\* exist.rs is_window_exist: IsWindow(hwnd)
is_window_exist(h) == h \in Handles /\ window[h].alive

\* A freshness check that also asks whether the window still fits the key.
LiveMatchingEntry(c, k) ==
    /\ k \in DOMAIN c
    /\ is_window_exist(c[k])
    /\ (k[1] = "" \/ window[c[k]].class = k[1])
    /\ (k[2] = "" \/ window[c[k]].title = k[2])

\* find.rs:29-30, :89-90 and information.rs:94-95:
\* cache.get(&key).is_some_and(|hwnd| is_window_exist(*hwnd))
LiveEntry(c, k) == k \in DOMAIN c /\ is_window_exist(c[k])

\* str_to_pcwstr (find.rs:58-65): NULL for the empty string; otherwise a pointer
\* into a Vec that is dropped when str_to_pcwstr returns, so FindWindowW reads
\* freed memory: the text it sees is the argument or any other text.
str_to_pcwstr(s) == IF s = "" THEN {"NULL"} ELSE WinClasses \cup WinTitles

\* FindWindowW: the windows that match; NULL matches anything.
Matches(c, t) ==
    { h \in Handles : /\ window[h].alive
                      /\ (c = "NULL" \/ window[h].class = c)
                      /\ (t = "NULL" \/ window[h].title = t) }

\* FindWindowW: the first match in the platform's order, or 0.
FindWindowW(c, t) == IF Matches(c, t) = {} THEN {NoHwnd} ELSE Matches(c, t)

\* get_hwnd after its argument check (find.rs:58-72): every value the
\* FindWindowW call can return.
FinderOutcomes(k) ==
    UNION { FindWindowW(c, t) : c \in str_to_pcwstr(k[1]), t \in str_to_pcwstr(k[2]) }

CannotFindWindow == Err("CannotFindWindow")

FinderResult(h) == IF h = NoHwnd THEN CannotFindWindow ELSE Ok(h)

\* The argument check left out: FindWindowW itself accepts two NULLs.
BothEmptyUnchecked(k) == FALSE

\* find.rs:25, :55, :84 and information.rs:59, :89
BothEmpty(k) == k[1] = "" /\ k[2] = ""


\* The key names a window's class and title; an empty part names any.
KeyMatches(k, h) ==
    /\ window[h].alive
    /\ (k[1] = "" \/ window[h].class = k[1])
    /\ (k[2] = "" \/ window[h].title = k[2])

TypeOK ==
    /\ window \in [Handles -> [alive : BOOLEAN, class : WinClasses, title : WinTitles,
                              exstyle : ExStyles, rect : Rects]]
    /\ foreground \in Handles \cup {NoHwnd}
    /\ \A t \in Threads : op[t].hwnd \in Handles \cup {NoHwnd}
    /\ hwndLock \in Threads \cup {"free"}
    /\ whLock \in Threads \cup {"free"}
    /\ whPoisoned \in BOOLEAN
    /\ DOMAIN hwndCache \subseteq Keys
    /\ \A k \in DOMAIN hwndCache : hwndCache[k] \in Handles
    /\ \A t \in Threads : DOMAIN getter[t] \subseteq Keys
    /\ DOMAIN whCache \subseteq Keys
    /\ resolved \in [Keys -> [hwnd : Handles \cup {NoHwnd}, quiet : BOOLEAN]]

Init ==
    /\ window = [h \in Handles |-> Dead]
    /\ hwndCache = EmptyCache
    /\ hwndLock = "free"
    /\ hwndBefore = EmptyCache
    /\ getter = [t \in Threads |-> EmptyCache]
    /\ getterBefore = [t \in Threads |-> EmptyCache]
    /\ whCache = EmptyCache
    /\ whLock = "free"
    /\ whPoisoned = FALSE
    /\ fn = [t \in Threads |-> "none"]
    /\ key = [t \in Threads |-> << "", "" >>]
    /\ pc = [t \in Threads |-> "idle"]
    /\ result = [t \in Threads |-> NoResult]
    /\ trace = [t \in Threads |-> NoTrace]
    /\ resolved = [k \in Keys |-> Unresolved]
    /\ foreground = NoHwnd
    /\ op = [t \in Threads |-> NoOp]

\* ------------------------------------------------------------------ environment

\* A window changed: no call and no key has seen a quiet window table since.
Disturb(gone) ==
    /\ trace' = [t \in Threads |-> [trace[t] EXCEPT !.race = FALSE]]
    /\ resolved' = [k \in Keys |->
                      IF resolved[k].hwnd \in gone \cup {NoHwnd}
                        THEN Unresolved
                        ELSE [resolved[k] EXCEPT !.quiet = FALSE]]

CreateWindow(h, c, t) ==
    /\ ~window[h].alive
    /\ window' = [window EXCEPT ![h] = Live(c, t)]
    /\ Disturb({})
    /\ UNCHANGED << findVars, getterVars, infoVars, opVars, fn, key, pc, result >>

DestroyWindow(h) ==
    /\ window[h].alive
    /\ window' = [window EXCEPT ![h] = Dead]
    /\ Disturb({h})
    /\ foreground' = IF foreground = h THEN NoHwnd ELSE foreground
    /\ UNCHANGED << findVars, getterVars, infoVars, op, fn, key, pc, result >>

SetWindowText(h, t) ==
    /\ window[h].alive
    /\ window[h].title # t
    /\ window' = [window EXCEPT ![h].title = t]
    /\ Disturb({})
    /\ UNCHANGED << findVars, getterVars, infoVars, opVars, fn, key, pc, result >>

Environment ==
    \/ \E h \in Handles, c \in WinClasses, t \in WinTitles : CreateWindow(h, c, t)
    \/ \E h \in Handles : DestroyWindow(h)
    \/ \E h \in Handles, t \in WinTitles : SetWindowText(h, t)

\* ------------------------------------------------------------------ find.rs

Enter(t, f, k, p) ==
    /\ fn' = [fn EXCEPT ![t] = f]
    /\ key' = [key EXCEPT ![t] = k]
    /\ pc' = [pc EXCEPT ![t] = p]

\* The threads inside get_hwnd_ref_cache that have not reached the finder yet.
Resolving == { u \in Threads : pc[u] \in {"lock", "find"} }

\* Thread t enters get_hwnd_ref_cache(k). It races thread u when u is resolving
\* the same key and HWND_CACHE holds no live entry for it: both calls miss.
\* The mark stays on both until a window changes.
EnterRefCache(t, k, tr) ==
    LET live == k \in DOMAIN hwndCache /\ is_window_exist(hwndCache[k])
        peers == { u \in Resolving \ {t} : key[u] = k /\ ~live }
    IN  trace' = [u \in Threads |->
                    IF u = t THEN [tr EXCEPT !.race = peers # {}]
                    ELSE IF u \in peers THEN [trace[u] EXCEPT !.race = TRUE]
                    ELSE trace[u]]

\* find.rs:54-73 get_hwnd, called directly
get_hwnd(t, k) ==
    /\ pc[t] = "idle"
    /\ Enter(t, "get_hwnd", k, "done")
    /\ IF BothEmpty(k)
         THEN /\ result' = [result EXCEPT ![t] = Err("WindowClassTitleBothEmpty")]
              /\ trace' = [trace EXCEPT ![t] = NoTrace]
         ELSE \E h \in FinderOutcomes(k) :
              /\ result' = [result EXCEPT ![t] = FinderResult(h)]
              /\ trace' = [trace EXCEPT ![t] = [NoTrace EXCEPT !.finder = 1, !.live = is_window_exist(h)]]
    /\ UNCHANGED << window, opVars, findVars, getterVars, infoVars, resolved >>

\* find.rs:83-86 get_hwnd_ref_cache: the argument check
get_hwnd_ref_cache(t, k) ==
    /\ pc[t] = "idle"
    /\ IF BothEmpty(k)
         THEN /\ Enter(t, "get_hwnd_ref_cache", k, "done")
              /\ result' = [result EXCEPT ![t] = Err("WindowClassTitleBothEmpty")]
              /\ trace' = [trace EXCEPT ![t] = NoTrace]
         ELSE /\ Enter(t, "get_hwnd_ref_cache", k, "lock")
              /\ result' = [result EXCEPT ![t] = NoResult]
              /\ EnterRefCache(t, k, NoTrace)
    /\ UNCHANGED << window, opVars, findVars, getterVars, infoVars, resolved >>

\* find.rs:87-93: HWND_CACHE.lock(), cache.get, is_window_exist, and on a miss
\* cache.remove
RefCacheLookup(t) ==
    /\ pc[t] = "lock"
    /\ MutexFree(hwndLock)
    /\ hwndLock' = t
    /\ hwndBefore' = hwndCache
    /\ LET k == key[t]
           cached == k \in DOMAIN hwndCache
           h == IF cached THEN hwndCache[k] ELSE NoHwnd
           tr == [trace[t] EXCEPT !.locks = @ + 1,
                                  !.exist = @ + (IF cached THEN 1 ELSE 0),
                                  !.settled = IF resolved[k].quiet THEN resolved[k].hwnd ELSE NoHwnd,
                                  !.pinned = resolved[k].hwnd]
       IN  IF LiveEntry(hwndCache, k)
             THEN /\ result' = [result EXCEPT ![t] = Ok(h)]
                  /\ trace' = [trace EXCEPT ![t] = [tr EXCEPT !.live = is_window_exist(h)]]
                  /\ pc' = [pc EXCEPT ![t] = "ret"]
                  /\ resolved' = [resolved EXCEPT ![k] = [hwnd |-> h, quiet |-> TRUE]]
                  /\ UNCHANGED hwndCache
             ELSE /\ hwndCache' = CacheRemove(hwndCache, k)
                  /\ trace' = [trace EXCEPT ![t] = [tr EXCEPT !.stale = h]]
                  /\ pc' = [pc EXCEPT ![t] = "find"]
                  /\ UNCHANGED << result, resolved >>
    /\ UNCHANGED << window, opVars, getterVars, infoVars, fn, key >>

\* find.rs:94-96: get_hwnd(window_class, window_title)?, cache.insert
RefCacheFind(t) ==
    /\ pc[t] = "find"
    /\ \E h \in FinderOutcomes(key[t]) :
         /\ result' = [result EXCEPT ![t] = FinderResult(h)]
         /\ trace' = [trace EXCEPT ![t] = [@ EXCEPT !.finder = @ + 1, !.live = is_window_exist(h)]]
         /\ hwndCache' = AfterFind(hwndCache, key[t], h)
         /\ resolved' = [resolved EXCEPT ![key[t]] =
                           IF h = NoHwnd THEN Unresolved ELSE [hwnd |-> h, quiet |-> TRUE]]
    /\ pc' = [pc EXCEPT ![t] = "ret"]
    /\ UNCHANGED << window, opVars, hwndLock, hwndBefore, getterVars, infoVars, fn, key >>

\* find.rs:98: the guard is dropped and get_hwnd_ref_cache returns, to its caller
\* or into HwndGetterWithCache::get_hwnd (find.rs:34)
RefCacheReturn(t) ==
    /\ pc[t] = "ret"
    /\ hwndLock' = "free"
    /\ hwndBefore' = EmptyCache
    /\ pc' = [pc EXCEPT ![t] = IF fn[t] = "HwndGetterWithCache" THEN "getter_ret" ELSE "done"]
    /\ UNCHANGED << window, opVars, hwndCache, getterVars, infoVars, fn, key, result, trace, resolved >>

\* find.rs:24-34 HwndGetterWithCache::get_hwnd on the thread's own instance: the
\* argument check, self.cache.get, is_window_exist, and on a miss
\* self.cache.remove and the call of get_hwnd_ref_cache
HwndGetterWithCache_get_hwnd(t, k) ==
    /\ pc[t] = "idle"
    /\ getterBefore' = [getterBefore EXCEPT ![t] = getter[t]]
    /\ LET cached == k \in DOMAIN getter[t]
           h == IF cached THEN getter[t][k] ELSE NoHwnd
           tr == [NoTrace EXCEPT !.exist = IF cached THEN 1 ELSE 0]
       IN  IF BothEmpty(k)
             THEN /\ Enter(t, "HwndGetterWithCache", k, "done")
                  /\ result' = [result EXCEPT ![t] = Err("WindowClassTitleBothEmpty")]
                  /\ trace' = [trace EXCEPT ![t] = NoTrace]
                  /\ UNCHANGED getter
             ELSE IF LiveEntry(getter[t], k)
                    THEN /\ Enter(t, "HwndGetterWithCache", k, "done")
                         /\ result' = [result EXCEPT ![t] = Ok(h)]
                         /\ trace' = [trace EXCEPT ![t] = [tr EXCEPT !.live = is_window_exist(h)]]
                         /\ UNCHANGED getter
                    ELSE /\ Enter(t, "HwndGetterWithCache", k, "lock")
                         /\ result' = [result EXCEPT ![t] = NoResult]
                         /\ getter' = [getter EXCEPT ![t] = CacheRemove(@, k)]
                         /\ EnterRefCache(t, k, tr)
    /\ UNCHANGED << window, opVars, findVars, infoVars, resolved >>

\* find.rs:34-36: `?` returns the error; otherwise self.cache.insert and Ok(hwnd)
GetterReturn(t) ==
    /\ pc[t] = "getter_ret"
    /\ getter' = [getter EXCEPT ![t] = AfterFind(@, key[t], result[t].hwnd)]
    /\ pc' = [pc EXCEPT ![t] = "done"]
    /\ UNCHANGED << window, opVars, findVars, getterBefore, infoVars, fn, key, result, trace, resolved >>

\* ------------------------------------------------------------------ information.rs

\* information.rs:58-77 get_window_handle
get_window_handle(t, k) ==
    /\ pc[t] = "idle"
    /\ Enter(t, "get_window_handle", k, "done")
    /\ IF BothEmpty(k)
         THEN /\ result' = [result EXCEPT ![t] = Err("WindowClassTitleBothEmpty")]
              /\ trace' = [trace EXCEPT ![t] = NoTrace]
         ELSE \E h \in FinderOutcomes(k) :
              /\ result' = [result EXCEPT ![t] = FinderResult(h)]
              /\ trace' = [trace EXCEPT ![t] = [NoTrace EXCEPT !.finder = 1, !.live = is_window_exist(h)]]
    /\ UNCHANGED << window, opVars, findVars, getterVars, infoVars, resolved >>

\* information.rs:88-91 get_window_handle_ref_cache: the argument check
get_window_handle_ref_cache(t, k) ==
    /\ pc[t] = "idle"
    /\ trace' = [trace EXCEPT ![t] = NoTrace]
    /\ IF BothEmpty(k)
         THEN /\ Enter(t, "get_window_handle_ref_cache", k, "done")
              /\ result' = [result EXCEPT ![t] = Err("WindowClassTitleBothEmpty")]
         ELSE /\ Enter(t, "get_window_handle_ref_cache", k, "wh_lock")
              /\ result' = [result EXCEPT ![t] = NoResult]
    /\ UNCHANGED << window, opVars, findVars, getterVars, infoVars, resolved >>

\* information.rs:92-98: WINDOW_HANDLE_CACHE.lock().unwrap() (a poisoned mutex
\* makes unwrap panic, and the guard inside the error is dropped), cache.get,
\* is_window_exist; a live entry is returned (:96) and the guard dropped, else
\* cache.remove
WhLookup(t) ==
    /\ pc[t] = "wh_lock"
    /\ MutexFree(whLock)
    /\ LET k == key[t]
           cached == k \in DOMAIN whCache
           h == IF cached THEN whCache[k] ELSE NoHwnd
           tr == [trace[t] EXCEPT !.locks = @ + 1, !.exist = @ + (IF cached THEN 1 ELSE 0)]
       IN  IF whPoisoned
             THEN /\ pc' = [pc EXCEPT ![t] = "panicked"]
                  /\ UNCHANGED << whCache, whLock, result, trace >>
             ELSE IF LiveEntry(whCache, k)
                    THEN /\ result' = [result EXCEPT ![t] = Ok(h)]
                         /\ trace' = [trace EXCEPT ![t] = [tr EXCEPT !.live = is_window_exist(h)]]
                         /\ pc' = [pc EXCEPT ![t] = "done"]
                         /\ UNCHANGED << whCache, whLock >>
                    ELSE /\ whCache' = CacheRemove(whCache, k)
                         /\ whLock' = t
                         /\ trace' = [trace EXCEPT ![t] = tr]
                         /\ pc' = [pc EXCEPT ![t] = "wh_relock"]
                         /\ UNCHANGED result
    /\ UNCHANGED << window, opVars, findVars, getterVars, whPoisoned, fn, key, resolved >>

\* information.rs:99: get_window_handle_ref_cache calls itself; the arguments
\* pass the check again (:89) and the call reaches WINDOW_HANDLE_CACHE.lock()
\* (:92) on the thread that holds the mutex. std::sync::Mutex::lock does not
\* return then: it deadlocks or it panics, and a panic unwinds through the
\* outer guard, which poisons and releases the mutex. cache.insert (:100) and
\* Ok(handle) (:101) are never reached.
WhRelock(t) ==
    /\ pc[t] = "wh_relock"
    /\ whLock = t
    /\ \/ /\ pc' = [pc EXCEPT ![t] = "deadlocked"]
          /\ UNCHANGED << whLock, whPoisoned >>
       \/ /\ pc' = [pc EXCEPT ![t] = "panicked"]
          /\ whLock' = "free"
          /\ whPoisoned' = TRUE
    /\ UNCHANGED << window, opVars, findVars, getterVars, whCache, fn, key, result, trace, resolved >>

\* ------------------------------------------------------------------ window operations

\* The handles a caller passes: a window's, a destroyed window's, or 0.
HandleArgs == Handles \cup {NoHwnd}

\* Result<()>'s Ok(())
OkUnit == Ok(NoHwnd)

\* IsWindow inside the OS calls: they fail on a handle that is no window.
IsWindow(h) == h \in Handles /\ window[h].alive

\* GetWindowLongW(hwnd, GWL_EXSTYLE): the extended style, which is 0 for a window
\* without extended-style bits; 0 too when the call fails.
GetWindowLongW(h) == IF IsWindow(h) THEN window[h].exstyle ELSE 0

\* top_most.rs:29 (n as u32 & WS_EX_TOPMOST.0) != 0
HasTopMost(n) == (n \div WS_EX_TOPMOST) % 2 = 1

\* SetWindowPos with HWND_TOPMOST or HWND_NOTOPMOST and SWP_NOMOVE | SWP_NOSIZE:
\* the topmost bit is set or cleared, nothing else changes.
SetWindowPos(n, is_top_most) ==
    IF HasTopMost(n) = is_top_most THEN n
    ELSE IF is_top_most THEN n + WS_EX_TOPMOST ELSE n - WS_EX_TOPMOST

\* A value read as 0 taken for the style it is.
GetWindowLongWFailedNever(n) == FALSE

\* top_most.rs:25-28: `0 => Err(GetWindowLongWFailed)`
GetWindowLongWFailed(n) == n = 0

\* top_most.rs:19-31 and information.rs:267-279 get_window_top_most
get_window_top_most(h) ==
    IF ~is_window_exist(h) THEN [tag |-> "WindowNotExist", val |-> FALSE]
    ELSE IF GetWindowLongWFailed(GetWindowLongW(h))
           THEN [tag |-> "GetWindowLongWFailed", val |-> FALSE]
           ELSE [tag |-> "Ok", val |-> HasTopMost(GetWindowLongW(h))]

\* Thread t enters function f with handle h.
EnterOp(t, f, h) ==
    /\ pc[t] = "idle"
    /\ Enter(t, f, key[t], "done")

\* The shape of the operations on a handle (foreground.rs:22-33,
\* position_size.rs:123-145, top_most.rs:34-61): WindowNotExist unless
\* is_window_exist(hwnd); else one OS call, which changes the windows to w and
\* the foreground window to fg and succeeds, or changes nothing and fails with
\* error e.
Operate(t, h, w, fg, e) ==
    /\ IF ~is_window_exist(h)
         THEN /\ result' = [result EXCEPT ![t] = Err("WindowNotExist")]
              /\ op' = [op EXCEPT ![t] = [@ EXCEPT !.hwnd = h]]
              /\ UNCHANGED << window, foreground >>
         ELSE \/ /\ IsWindow(h)
                 /\ window' = w
                 /\ foreground' = fg
                 /\ result' = [result EXCEPT ![t] = OkUnit]
                 /\ op' = [op EXCEPT ![t] = [@ EXCEPT !.hwnd = h, !.mutations = @ + 1]]
              \/ /\ UNCHANGED << window, foreground >>
                 /\ result' = [result EXCEPT ![t] = Err(e)]
                 /\ op' = [op EXCEPT ![t] = [@ EXCEPT !.hwnd = h, !.mutations = @ + 1,
                                                      !.failed = TRUE]]
    /\ UNCHANGED << findVars, getterVars, infoVars, trace, resolved >>

\* foreground.rs:22-33 set_foreground_window: SetForegroundWindow
set_foreground_window(t, h) ==
    /\ EnterOp(t, "set_foreground_window", h)
    /\ Operate(t, h, window, h, "SetForegroundWindowFailed")

\* position_size.rs:123-145 move_window_to_xywh: MoveWindow
move_window_to_xywh(t, h, r) ==
    /\ EnterOp(t, "move_window_to_xywh", h)
    /\ Operate(t, h, [window EXCEPT ![h].rect = r], foreground, "MoveWindowFailed")

\* top_most.rs:34-61 set_window_top_most_status: SetWindowPos
set_window_top_most_status(t, h, is_top_most) ==
    Operate(t, h, [window EXCEPT ![h].exstyle = SetWindowPos(@, is_top_most)],
            foreground, "SetWindowPosFailed")

\* top_most.rs:64-66
set_window_top_most(t, h) ==
    /\ EnterOp(t, "set_window_top_most", h)
    /\ set_window_top_most_status(t, h, TRUE)

\* top_most.rs:69-71
cancel_window_top_most(t, h) ==
    /\ EnterOp(t, "cancel_window_top_most", h)
    /\ set_window_top_most_status(t, h, FALSE)

\* top_most.rs:74-75 toggle_window_top_most (operation.rs:107-108
\* switch_window_top_most): get_window_top_most(hwnd)?
toggle_window_top_most(t, h) ==
    /\ pc[t] = "idle"
    /\ LET r == get_window_top_most(h)
       IN  IF r.tag = "Ok"
             THEN /\ Enter(t, "toggle_window_top_most", key[t], "toggle_set")
                  /\ result' = [result EXCEPT ![t] = NoResult]
                  /\ op' = [op EXCEPT ![t] = [NoOp EXCEPT !.hwnd = h, !.before = window[h]]]
             ELSE /\ Enter(t, "toggle_window_top_most", key[t], "done")
                  /\ result' = [result EXCEPT ![t] = Err(r.tag)]
                  /\ op' = [op EXCEPT ![t] = [NoOp EXCEPT !.hwnd = h]]
    /\ UNCHANGED << window, foreground, findVars, getterVars, infoVars, trace, resolved >>

\* top_most.rs:76-80: cancel_window_top_most(hwnd) if the window was topmost,
\* else set_window_top_most(hwnd)
ToggleSet(t) ==
    /\ pc[t] = "toggle_set"
    /\ pc' = [pc EXCEPT ![t] = "done"]
    /\ UNCHANGED << fn, key >>
    /\ set_window_top_most_status(t, op[t].hwnd, ~HasTopMost(op[t].before.exstyle))

\* Another program gives a window another extended style (SetWindowLongW,
\* SetWindowPos).
SetWindowLongW(h, n) ==
    /\ window[h].alive
    /\ window[h].exstyle # n
    /\ window' = [window EXCEPT ![h].exstyle = n]
    /\ UNCHANGED << findVars, getterVars, infoVars, opVars, fn, key, pc, result, trace, resolved >>

\* The user brings a window to the foreground.
Activate(h) ==
    /\ window[h].alive
    /\ foreground # h
    /\ foreground' = h
    /\ UNCHANGED << window, findVars, getterVars, infoVars, op, fn, key, pc, result, trace, resolved >>

\* ------------------------------------------------------------------ callers

\* The caller takes the result; the thread is free for its next call.
Finish(t) ==
    /\ pc[t] = "done"
    /\ fn' = [fn EXCEPT ![t] = "none"]
    /\ key' = [key EXCEPT ![t] = << "", "" >>]
    /\ pc' = [pc EXCEPT ![t] = "idle"]
    /\ result' = [result EXCEPT ![t] = NoResult]
    /\ trace' = [trace EXCEPT ![t] = NoTrace]
    /\ getterBefore' = [getterBefore EXCEPT ![t] = EmptyCache]
    /\ op' = [op EXCEPT ![t] = NoOp]
    /\ UNCHANGED << window, foreground, findVars, getter, infoVars, resolved >>

\* The keys of the calls where two threads are in play.
FewKeys == { << "", "" >>, << "", "x" >> }

\* A single caller, for the properties of one call after another.
OneThread == {"t1"}

\* Two threads resolving through the process-wide HWND_CACHE and the uncached
\* finder.
Next ==
    \/ Environment
    \/ \E t \in Threads, k \in FewKeys : get_hwnd(t, k)
    \/ \E t \in Threads, k \in FewKeys : get_hwnd_ref_cache(t, k)
    \/ \E t \in Threads : RefCacheLookup(t)
    \/ \E t \in Threads : RefCacheFind(t)
    \/ \E t \in Threads : RefCacheReturn(t)
    \/ \E t \in Threads : Finish(t)

Spec == Init /\ [][Next]_vars

\* Two threads with one HwndGetterWithCache each, and direct callers of
\* get_hwnd_ref_cache beside them.
NextGetter ==
    \/ Environment
    \/ \E t \in Threads, k \in FewKeys : HwndGetterWithCache_get_hwnd(t, k)
    \/ \E t \in Threads, k \in FewKeys : get_hwnd_ref_cache(t, k)
    \/ \E t \in Threads : RefCacheLookup(t)
    \/ \E t \in Threads : RefCacheFind(t)
    \/ \E t \in Threads : RefCacheReturn(t)
    \/ \E t \in Threads : GetterReturn(t)
    \/ \E t \in Threads : Finish(t)

SpecGetter == Init /\ [][NextGetter]_vars

\* Two threads calling the resolve functions of information.rs.
NextInfo ==
    \/ Environment
    \/ \E t \in Threads, k \in Keys : get_window_handle(t, k)
    \/ \E t \in Threads, k \in Keys : get_window_handle_ref_cache(t, k)
    \/ \E t \in Threads : WhLookup(t)
    \/ \E t \in Threads : WhRelock(t)
    \/ \E t \in Threads : Finish(t)

SpecInfo == Init /\ [][NextInfo]_vars

\* One caller using every resolve function of find.rs and information.rs, one
\* call after another, with several keys in the process-wide cache.
NextCalls ==
    \/ Environment
    \/ \E t \in OneThread, k \in Keys : get_hwnd(t, k)
    \/ \E t \in OneThread, k \in Keys : get_hwnd_ref_cache(t, k)
    \/ \E t \in OneThread : RefCacheLookup(t)
    \/ \E t \in OneThread : RefCacheFind(t)
    \/ \E t \in OneThread : RefCacheReturn(t)
    \/ \E t \in OneThread, k \in FewKeys : HwndGetterWithCache_get_hwnd(t, k)
    \/ \E t \in OneThread : GetterReturn(t)
    \/ \E t \in OneThread, k \in Keys : get_window_handle(t, k)
    \/ \E t \in OneThread, k \in Keys : get_window_handle_ref_cache(t, k)
    \/ \E t \in OneThread : WhLookup(t)
    \/ \E t \in OneThread : WhRelock(t)
    \/ \E t \in OneThread : Finish(t)

SpecCalls == Init /\ [][NextCalls]_vars

\* One caller with an HwndGetterWithCache, which fills the instance cache and
\* the process-wide cache with several keys, and direct calls of
\* get_hwnd_ref_cache beside it.
NextInstance ==
    \/ Environment
    \/ \E t \in OneThread, k \in Keys : HwndGetterWithCache_get_hwnd(t, k)
    \/ \E t \in OneThread, k \in FewKeys : get_hwnd_ref_cache(t, k)
    \/ \E t \in OneThread : RefCacheLookup(t)
    \/ \E t \in OneThread : RefCacheFind(t)
    \/ \E t \in OneThread : RefCacheReturn(t)
    \/ \E t \in OneThread : GetterReturn(t)
    \/ \E t \in OneThread : Finish(t)

SpecInstance == Init /\ [][NextInstance]_vars

\* One caller operating on window handles while windows come, go, change their
\* extended style and take the foreground.
NextOps ==
    \/ \E h \in Handles : CreateWindow(h, "A", "x")
    \/ \E h \in Handles : DestroyWindow(h)
    \/ \E h \in Handles, n \in ExStyles : SetWindowLongW(h, n)
    \/ \E h \in Handles : Activate(h)
    \/ \E t \in OneThread, h \in HandleArgs : set_foreground_window(t, h)
    \/ \E t \in OneThread, h \in HandleArgs, r \in Rects : move_window_to_xywh(t, h, r)
    \/ \E t \in OneThread, h \in HandleArgs : set_window_top_most(t, h)
    \/ \E t \in OneThread, h \in HandleArgs : cancel_window_top_most(t, h)
    \/ \E t \in OneThread, h \in HandleArgs : toggle_window_top_most(t, h)
    \/ \E t \in OneThread : ToggleSet(t)
    \/ \E t \in OneThread : Finish(t)

SpecOps == Init /\ [][NextOps]_vars

\* ------------------------------------------------------------------ properties

EmptyKey == << "", "" >>

InvalidQuery == Err("WindowClassTitleBothEmpty")

\* Thread t begins a call in this step.
Calls(t) == pc[t] = "idle" /\ pc'[t] # "idle"

\* C1: a resolve call (get_hwnd, get_hwnd_ref_cache, HwndGetterWithCache::get_hwnd,
\* get_window_handle, get_window_handle_ref_cache) with class and title both
\* empty is over in one step: it returns WindowClassTitleBothEmpty, has called
\* neither IsWindow nor FindWindowW, has taken no mutex, and has left every
\* cache as it was, whatever the caches hold.
C1_BothEmptyRejected ==
    [][ \A t \in Threads :
          Calls(t) /\ key'[t] = EmptyKey =>
            /\ pc'[t] = "done"
            /\ result'[t] = InvalidQuery
            /\ trace'[t].finder = 0 /\ trace'[t].exist = 0 /\ trace'[t].locks = 0
            /\ hwndLock' = hwndLock /\ whLock' = whLock
            /\ hwndCache' = hwndCache /\ whCache' = whCache /\ getter' = getter ]_vars

\* C1 witness: the call is rejected while both the shared cache and the
\* caller's own cache hold an entry.
C1_Witness ==
    \E t \in Threads :
        /\ pc[t] = "done" /\ key[t] = EmptyKey /\ result[t] = InvalidQuery
        /\ fn[t] = "HwndGetterWithCache"
        /\ hwndCache # EmptyCache /\ getter[t] # EmptyCache

NotFound == CannotFindWindow

\* The call of thread t has its result: get_hwnd_ref_cache is about to drop the
\* guard and return, or the call has returned.
Returning(t) == pc[t] \in {"ret", "getter_ret", "done"}

\* C2: when a resolve of a key through HWND_CACHE obtained handle h and no window
\* was created, destroyed or retitled from then until the next resolve of that
\* key looks the key up, that resolve returns h and has not called FindWindowW.
C2_RepeatIsHit ==
    \A t \in Threads :
        trace[t].settled # NoHwnd =>
            /\ Returning(t)
            /\ result[t] = Ok(trace[t].settled)
            /\ trace[t].finder = 0

\* C2 witness: a second resolve of the key has its result, with no window
\* changed since the first.
C2_Witness ==
    \E t \in Threads :
        /\ pc[t] = "ret" /\ trace[t].settled # NoHwnd
        /\ result[t] = Ok(trace[t].settled)

\* C3: a resolve that finds a dead handle cached for its key removes the entry,
\* calls FindWindowW exactly once, and returns either a handle that was a window
\* when FindWindowW returned it, which is then the key's entry, or
\* CannotFindWindow with no entry left; the dead handle is no error of its own.
C3_DeadEntryReResolved ==
    \A t \in Threads :
        trace[t].stale # NoHwnd =>
            /\ pc[t] = "find" => key[t] \notin DOMAIN hwndCache
            /\ Returning(t) =>
                 /\ trace[t].finder = 1
                 /\ \/ result[t] = NotFound
                    \/ result[t].tag = "Ok" /\ trace[t].live
            /\ pc[t] = "ret" =>
                 IF result[t].tag = "Ok"
                   THEN key[t] \in DOMAIN hwndCache /\ hwndCache[key[t]] = result[t].hwnd
                   ELSE key[t] \notin DOMAIN hwndCache

\* C3 witness: a dead entry was replaced by a newly found handle.
C3_Witness ==
    \E t \in Threads :
        /\ pc[t] = "ret" /\ trace[t].stale # NoHwnd
        /\ result[t].tag = "Ok" /\ result[t].hwnd # trace[t].stale

\* C4: no resolve call panics, and a call that returns Ok(h) obtained h when h
\* was a window.
C4_NoPanicAndLiveHandles ==
    \A t \in Threads :
        /\ pc[t] # "panicked"
        /\ Returning(t) /\ result[t].tag = "Ok" => trace[t].live

\* C5: once a key resolved to window H, and while H lives, a resolve of the key
\* that finds H no longer fitting the key returns H all the same, without
\* calling FindWindowW, also when another live window fits the key.
C5_StaleMatchKept ==
    [][ \A t \in Threads :
          LET H == resolved[key[t]].hwnd
          IN  /\ pc[t] = "lock" /\ pc'[t] # "lock"
              /\ H # NoHwnd
              /\ ~KeyMatches(key[t], H)
              => /\ pc'[t] = "ret"
                 /\ result'[t] = Ok(H)
                 /\ trace'[t].finder = 0 ]_vars

\* C5 witness: the resolve returns the retitled window H while another live
\* window fits the key.
C5_Witness ==
    \E t \in Threads :
        /\ pc[t] = "ret" /\ trace[t].pinned # NoHwnd
        /\ result[t] = Ok(trace[t].pinned)
        /\ ~KeyMatches(key[t], trace[t].pinned)
        /\ \E h \in Handles \ {trace[t].pinned} : KeyMatches(key[t], h)

\* Cache c is cache b without key k (and equal to b when b has no entry for k).
SameExceptRemoved(c, b, k) ==
    /\ DOMAIN c = DOMAIN b \ {k}
    /\ \A q \in DOMAIN c : c[q] = b[q]

\* C6 as stated: whenever a resolve returns CannotFindWindow, the cache is as it
\* was before the call.
C6_NotFoundLeavesCacheAsItWas ==
    \A t \in Threads :
        result[t] = NotFound =>
            /\ pc[t] = "ret" => hwndCache = hwndBefore
            /\ pc[t] = "done" /\ fn[t] = "HwndGetterWithCache" => getter[t] = getterBefore[t]

\* C6 amended: whenever a resolve returns CannotFindWindow, the cache holds no
\* entry for the key and is otherwise as it was before the call: nothing was
\* added, and the only entry removed is the key's own, whose handle was dead.
C6_NotFoundOnlyDropsDeadEntry ==
    \A t \in Threads :
        result[t] = NotFound =>
            /\ pc[t] = "ret" => SameExceptRemoved(hwndCache, hwndBefore, key[t])
            /\ pc[t] = "done" /\ fn[t] = "HwndGetterWithCache" =>
                 SameExceptRemoved(getter[t], getterBefore[t], key[t])
            /\ pc[t] = "ret" /\ key[t] \in DOMAIN hwndBefore =>
                 trace[t].stale = hwndBefore[key[t]]

\* C6 witness: CannotFindWindow after a dead entry of the key was removed, in
\* the shared cache and in the caller's own cache, with another key cached.
C6_Witness ==
    \E t \in Threads :
        /\ pc[t] = "ret" /\ result[t] = NotFound
        /\ fn[t] = "HwndGetterWithCache"
        /\ key[t] \in DOMAIN hwndBefore /\ key[t] \in DOMAIN getterBefore[t]
        /\ hwndCache # EmptyCache

\* A capacity N below the number of keys that can be resolved.
LruCapacity == Cardinality(Keys \ {EmptyKey}) - 1

\* C7 as stated: HWND_CACHE never holds more than N entries.
C7_CapacityBounded == Cardinality(DOMAIN hwndCache) <= LruCapacity

\* C7 amended: HWND_CACHE is an unbounded map without eviction: the step that
\* inserts a found handle removes no entry and changes none but the key's own,
\* so the cache grows to hold every key resolved.
C7_InsertEvictsNothing ==
    [][ \A t \in Threads :
          pc[t] = "find" /\ pc'[t] = "ret" =>
            \A q \in DOMAIN hwndCache :
                /\ q \in DOMAIN hwndCache'
                /\ q # key[t] => hwndCache'[q] = hwndCache[q] ]_vars

\* C7 witness: more than N keys are cached at once.
C7_Witness == Cardinality(DOMAIN hwndCache) > LruCapacity

\* C8: no call reaches Mutex::lock on a mutex that the call itself holds (from
\* where it would never return).
C8_NeverLocksOwnMutex ==
    \A t \in Threads :
        /\ pc[t] = "lock" => hwndLock # t
        /\ pc[t] \in {"wh_lock", "wh_relock"} => whLock # t
        /\ pc[t] # "deadlocked"

\* C9: HwndGetterWithCache::get_hwnd never takes the process-wide mutex and
\* never reads or writes HWND_CACHE.
C9_GetterKeepsToItself ==
    \A t \in Threads :
        fn[t] = "HwndGetterWithCache" => trace[t].locks = 0 /\ hwndLock # t

\* The threads inside the critical section of get_hwnd_ref_cache.
InCritical == { t \in Threads : pc[t] \in {"find", "ret"} }

\* Threads t and u raced on one key, no window changed, and both have results.
Raced(t, u) ==
    /\ t # u
    /\ Returning(t) /\ Returning(u)
    /\ key[t] = key[u]
    /\ trace[t].race /\ trace[u].race

\* C10 as stated: when two threads miss on one key at the same time and no window
\* changes, FindWindowW is called once and both return the same handle.
C10_RaceFindsOnce ==
    \A t, u \in Threads :
        Raced(t, u) =>
            /\ trace[t].finder + trace[u].finder = 1
            /\ result[t].tag = "Ok" /\ result[t] = result[u]

\* C10 amended: at most one thread is between the lookup and the return of
\* get_hwnd_ref_cache, it holds the mutex, and HWND_CACHE differs from what the
\* thread found at its lookup in the entry of its key only, which is what the
\* thread itself made of it. When two threads
\* miss on one key at the same time and no window changes, the thread that
\* takes the mutex first calls FindWindowW once; if it obtains a handle, the
\* other thread calls FindWindowW not at all and returns the same handle.
C10_OneCriticalSection ==
    /\ Cardinality(InCritical) <= 1
    /\ \A t \in InCritical :
         /\ hwndLock = t
         /\ \A q \in Keys \ {key[t]} :
              /\ q \in DOMAIN hwndCache <=> q \in DOMAIN hwndBefore
              /\ q \in DOMAIN hwndCache => hwndCache[q] = hwndBefore[q]
         /\ IF pc[t] = "ret" /\ result[t].tag = "Ok"
              THEN key[t] \in DOMAIN hwndCache /\ hwndCache[key[t]] = result[t].hwnd
              ELSE key[t] \notin DOMAIN hwndCache
    /\ \A t \in Threads :
         Returning(t) /\ trace[t].race /\ trace[t].locks = 1 =>
            IF trace[t].settled = NoHwnd
              THEN trace[t].finder = 1
              ELSE trace[t].finder = 0 /\ result[t] = Ok(trace[t].settled)
    /\ \A t, u \in Threads :
         Raced(t, u) /\ trace[u].settled # NoHwnd =>
            /\ trace[t].finder + trace[u].finder = 1
            /\ result[t] = result[u]

\* C10 witness: two threads raced on a key, one found a window and the other
\* took it from the cache.
C10_Witness ==
    \E t, u \in Threads :
        /\ Raced(t, u)
        /\ pc[t] = "done" /\ pc[u] = "ret"
        /\ trace[t].finder = 1 /\ trace[u].finder = 0
        /\ result[u].tag = "Ok"

\* C11: a resolve that obtains handle h from FindWindowW has Ok(h) as its result
\* and h as the entry of its key, with HWND_CACHE's mutex still held; the return
\* of get_hwnd_ref_cache changes neither, and HwndGetterWithCache::get_hwnd
\* puts the handle it returns into its own cache. So HWND_CACHE maps the key to
\* h when a successful get_hwnd_ref_cache drops the guard, and the instance cache
\* maps the key to h when a successful HwndGetterWithCache::get_hwnd is over.
C11_FoundIsReturnedAndCached ==
    /\ [](\A t \in Threads :
            result[t].tag = "Ok" =>
              /\ pc[t] = "ret" =>
                   key[t] \in DOMAIN hwndCache /\ hwndCache[key[t]] = result[t].hwnd
              /\ pc[t] = "done" /\ fn[t] = "HwndGetterWithCache" =>
                   key[t] \in DOMAIN getter[t] /\ getter[t][key[t]] = result[t].hwnd)
    /\ [][ \A t \in Threads :
             /\ pc[t] = "find" /\ pc'[t] = "ret" =>
                  /\ result'[t].hwnd \in FinderOutcomes(key[t])
                  /\ result'[t] = FinderResult(result'[t].hwnd)
                  /\ result'[t].tag = "Ok" =>
                       key[t] \in DOMAIN hwndCache' /\ hwndCache'[key[t]] = result'[t].hwnd
             /\ pc[t] = "ret" /\ pc'[t] # "ret" =>
                  result'[t] = result[t] /\ hwndCache' = hwndCache ]_vars

\* C11 witness: HwndGetterWithCache::get_hwnd found a dead handle in its own
\* cache, obtained another handle from FindWindowW and has returned it.
C11_Witness ==
    \E t \in Threads :
        /\ pc[t] = "done" /\ fn[t] = "HwndGetterWithCache"
        /\ trace[t].finder = 1 /\ result[t].tag = "Ok"
        /\ key[t] \in DOMAIN getterBefore[t]
        /\ getterBefore[t][key[t]] # result[t].hwnd
        /\ getter[t][key[t]] = result[t].hwnd

\* The call of thread t is over: it has its result, or it will never have one.
Over(t) == pc[t] \in {"ret", "getter_ret", "done", "deadlocked", "panicked"}

\* The call of thread t found a live entry for its key in the cache the called
\* function keeps: the instance's own cache for HwndGetterWithCache::get_hwnd
\* (IsWindow asked, no mutex taken), HWND_CACHE for get_hwnd_ref_cache (IsWindow
\* asked, no dead handle met), WINDOW_HANDLE_CACHE for
\* get_window_handle_ref_cache (returned at information.rs:96).
CacheHit(t) ==
    CASE fn[t] = "HwndGetterWithCache" -> trace[t].exist = 1 /\ trace[t].locks = 0
      [] fn[t] = "get_hwnd_ref_cache" -> trace[t].exist = 1 /\ trace[t].stale = NoHwnd
      [] fn[t] = "get_window_handle_ref_cache" -> trace[t].exist = 1 /\ pc[t] = "done"
      [] OTHER -> FALSE

\* C12: a resolve call that is over has called FindWindowW not at all when it
\* was rejected for two empty arguments or found a live entry in its cache, and
\* exactly once otherwise; a call that returns CannotFindWindow has called it
\* once.
C12_FinderOncePerCall ==
    \A t \in Threads :
        Over(t) =>
            /\ trace[t].finder = IF result[t] = InvalidQuery \/ CacheHit(t) THEN 0 ELSE 1
            /\ result[t] = NotFound => trace[t].finder = 1

\* What a finder asked for key k yields in the current window table: a live
\* window that fits the key, or no window when none fits.
FinderYields(k) ==
    LET fits == { h \in Handles : KeyMatches(k, h) }
    IN  IF fits = {} THEN {NotFound} ELSE { Ok(h) : h \in fits }

\* C13: when HwndGetterWithCache::get_hwnd holds no live entry for its key in
\* its own cache, the step that gives the call its result is a call of
\* FindWindowW, and the result is what a finder yields for the key in the
\* window table of that moment: a live window that fits the key, or
\* CannotFindWindow when no live window fits.
C13_GetterAsksFinder ==
    [][ \A t \in Threads :
          /\ fn[t] = "HwndGetterWithCache"
          /\ pc[t] \in {"lock", "find"} /\ pc'[t] = "ret"
          => /\ trace'[t].finder = 1
             /\ result'[t] \in FinderYields(key[t]) ]_vars

\* No entry of cache c has two empty strings for its key or 0 for its handle.
WellFormed(c) ==
    /\ EmptyKey \notin DOMAIN c
    /\ \A q \in DOMAIN c : c[q] \in Handles

\* The step gives cache c an entry for key q, or another handle for it.
Written(c, d, q) == q \in DOMAIN d /\ (q \in DOMAIN c => d[q] # c[q])

\* C14: HWND_CACHE, WINDOW_HANDLE_CACHE and every instance cache are well
\* formed in every state, and every entry comes from a FindWindowW call for its
\* key: an entry of HWND_CACHE is written only by the call that has just
\* obtained that handle from FindWindowW for that key; an entry of an instance
\* cache is written only with the handle get_hwnd_ref_cache returned for that
\* key, which it obtained from FindWindowW or took from HWND_CACHE's entry of
\* the key; no entry is written by a call that ends in
\* WindowClassTitleBothEmpty or CannotFindWindow.
C14_CachesWellFormed ==
    /\ [](/\ WellFormed(hwndCache) /\ WellFormed(whCache)
          /\ \A t \in Threads :
               /\ WellFormed(getter[t])
               /\ pc[t] = "ret" /\ result[t].tag = "Ok" /\ trace[t].finder = 0 =>
                    hwndCache[key[t]] = result[t].hwnd)
    /\ [][ \A q \in Keys :
             /\ Written(hwndCache, hwndCache', q) =>
                  \E t \in Threads :
                      /\ key[t] = q /\ pc[t] = "find" /\ pc'[t] = "ret"
                      /\ trace'[t].finder = trace[t].finder + 1
                      /\ hwndCache'[q] \in FinderOutcomes(q)
                      /\ result'[t] = Ok(hwndCache'[q])
             /\ \A t \in Threads :
                  Written(getter[t], getter'[t], q) =>
                      /\ key[t] = q /\ pc[t] = "getter_ret"
                      /\ result[t] = Ok(getter'[t][q])
             /\ ~Written(whCache, whCache', q) ]_vars

\* C14 witness: a call has returned CannotFindWindow while HWND_CACHE and the
\* caller's instance cache hold entries.
C14_Witness ==
    \E t \in Threads :
        /\ pc[t] = "done" /\ result[t] = NotFound
        /\ trace[t].finder = 1
        /\ hwndCache # EmptyCache /\ getter[t] # EmptyCache

\* The entry of key q differs between caches c and d.
Changed(c, d, q) ==
    \/ (q \in DOMAIN c) # (q \in DOMAIN d)
    \/ q \in DOMAIN c /\ q \in DOMAIN d /\ c[q] # d[q]

\* C15: an entry of HWND_CACHE changes only in a step of a resolve of the
\* entry's own key, and an entry of an instance cache only in a step of a call on
\* that instance with the entry's own key; an entry is removed only by the
\* lookup of a resolve of its key that finds its handle dead. Entries of other
\* keys, dead handles included, stay as they are through every call, whatever
\* its outcome, and through every change of the windows.
C15_OtherKeysUntouched ==
    [][ \A q \in Keys :
          /\ Changed(hwndCache, hwndCache', q) =>
               \E t \in Threads : key[t] = q /\ pc[t] \in {"lock", "find"} /\ pc'[t] # pc[t]
          /\ q \in DOMAIN hwndCache /\ q \notin DOMAIN hwndCache' =>
               \E t \in Threads : /\ key[t] = q /\ pc[t] = "lock" /\ pc'[t] = "find"
                                  /\ ~is_window_exist(hwndCache[q])
          /\ \A t \in Threads :
               /\ Changed(getter[t], getter'[t], q) =>
                    fn'[t] = "HwndGetterWithCache" /\ key'[t] = q /\ pc'[t] # pc[t]
               /\ q \in DOMAIN getter[t] /\ q \notin DOMAIN getter'[t] =>
                    Calls(t) /\ ~is_window_exist(getter[t][q]) ]_vars

\* C15 witness: a call on an instance has replaced the dead entry of its key,
\* while the instance cache holds a dead handle for another key, as it did
\* before the call, and HWND_CACHE holds a dead handle for that key too.
C15_Witness ==
    \E t \in Threads : \E q \in DOMAIN getter[t] \ {key[t]} :
        /\ pc[t] = "done" /\ fn[t] = "HwndGetterWithCache"
        /\ result[t].tag = "Ok" /\ trace[t].finder = 1
        /\ key[t] \in DOMAIN getterBefore[t]
        /\ ~is_window_exist(getter[t][q])
        /\ q \in DOMAIN getterBefore[t] /\ getterBefore[t][q] = getter[t][q]
        /\ q \in DOMAIN hwndCache /\ ~is_window_exist(hwndCache[q])

\* The operations that change a window or the foreground.
MutatingOps ==
    { "set_foreground_window", "move_window_to_xywh", "set_window_top_most",
      "cancel_window_top_most", "toggle_window_top_most" }

WindowNotExist == Err("WindowNotExist")

\* C16: set_foreground_window, move_window_to_xywh, set_window_top_most,
\* cancel_window_top_most and toggle_window_top_most called with a handle that is
\* no live window are over in one step: they return WindowNotExist, have made no
\* SetForegroundWindow, MoveWindow or SetWindowPos call, and have left every
\* window (its rectangle and its topmost bit) and the foreground window as they
\* were. No call that returns WindowNotExist has made such an OS call.
C16_DeadHandleRejected ==
    /\ [](\A t \in Threads :
            fn[t] \in MutatingOps /\ result[t] = WindowNotExist => op[t].mutations = 0)
    /\ [][ \A t \in Threads :
             Calls(t) /\ fn'[t] \in MutatingOps /\ ~IsWindow(op'[t].hwnd) =>
                /\ pc'[t] = "done"
                /\ result'[t] = WindowNotExist
                /\ op'[t].mutations = 0
                /\ window' = window
                /\ foreground' = foreground ]_vars

\* Thread t was refused with WindowNotExist in function f on the handle of a
\* destroyed window, while there is a foreground window and a topmost window
\* that has been moved.
RefusedIn(t, f) ==
    /\ pc[t] = "done" /\ fn[t] = f /\ result[t] = WindowNotExist
    /\ op[t].hwnd \in Handles
    /\ foreground # NoHwnd
    /\ \E g \in Handles : /\ window[g].alive /\ HasTopMost(window[g].exstyle)
                          /\ window[g].rect # DefaultRect

\* C16 witness: toggle_window_top_most was refused on a destroyed window's handle.
C16_Witness == \E t \in Threads : RefusedIn(t, "toggle_window_top_most")

\* C17: toggle_window_top_most called on a live window goes on to its
\* SetWindowPos call, whatever the window's extended style, the style without
\* any bit included; and when the window is as the call found it and SetWindowPos
\* succeeds, the call returns Ok, the window's topmost bit is the negation of
\* what it was, and nothing else has changed: not the window's other bits, not
\* its rectangle, no other window, not the foreground window. (Two such calls
\* in a row then restore the topmost bit.)
C17_ToggleNegates ==
    [][ \A t \in Threads :
          LET h == op'[t].hwnd
          IN  /\ Calls(t) /\ fn'[t] = "toggle_window_top_most" /\ IsWindow(h) =>
                   pc'[t] = "toggle_set"
              /\ /\ pc[t] = "toggle_set" /\ pc'[t] = "done"
                 /\ IsWindow(h) /\ window[h] = op[t].before
                 /\ ~op'[t].failed
                 => /\ result'[t] = OkUnit
                    /\ HasTopMost(window'[h].exstyle) = ~HasTopMost(window[h].exstyle)
                    /\ window' = [window EXCEPT ![h].exstyle = window'[h].exstyle]
                    /\ window'[h].exstyle \in
                         {window[h].exstyle + WS_EX_TOPMOST, window[h].exstyle - WS_EX_TOPMOST}
                    /\ foreground' = foreground ]_vars

====
